---- MODULE Spec2Model ----
(***************************************************************************)
(* Invoice QC service: the validation rule engine and aggregator           *)
(* (invoice_qc/validator.py), the folder extraction loop and the amount    *)
(* parser (invoice_qc/extractor.py), the CLI commands (invoice_qc/cli.py)  *)
(* and the HTTP validate endpoint (api.py).                                *)
(*                                                                         *)
(* Representation.  A Python value is a tagged record: None, a str (a      *)
(* sequence of one-character strings, so that strip/lower/strptime can be  *)
(* computed as the code computes them) or a float.  A float is held as an  *)
(* integer number of hundredths: the model's amounts are the doubles       *)
(* nearest to two-decimal values, and the float comparisons of the rules   *)
(* are computed exactly for those doubles (FloatAbsDiffGtTol).  Error      *)
(* codes are strings, built by concatenation as the f-strings build them.  *)
(***************************************************************************)
EXTENDS Integers, Sequences, FiniteSets, TLC

(***************************************************************************)
(* Python values                                                           *)
(***************************************************************************)
None == [t |-> "none"]
Str(cs) == [t |-> "str", v |-> cs]
Num(c) == [t |-> "num", v |-> c]

IsNone(x) == x.t = "none"
IsStr(x) == x.t = "str"
IsNum(x) == x.t = "num"

\* Python truthiness of a field value: None, "" and 0 are falsy.
Truthy(x) ==
    CASE x.t = "none" -> FALSE
      [] x.t = "str" -> Len(x.v) > 0
      [] x.t = "num" -> x.v # 0

(***************************************************************************)
(* Characters and strings                                                  *)
(***************************************************************************)
LowerLetters == <<"a","b","c","d","e","f","g","h","i","j","k","l","m",
                  "n","o","p","q","r","s","t","u","v","w","x","y","z">>
UpperLetters == <<"A","B","C","D","E","F","G","H","I","J","K","L","M",
                  "N","O","P","Q","R","S","T","U","V","W","X","Y","Z">>
DigitChars == <<"0","1","2","3","4","5","6","7","8","9">>

IsSpace(c) == c \in {" ", "\t", "\n", "\r"}
IsDigit(c) == \E i \in 1..10 : DigitChars[i] = c
DigitVal(c) == (CHOOSE i \in 1..10 : DigitChars[i] = c) - 1

UpperChar(c) ==
    IF \E i \in 1..26 : LowerLetters[i] = c
    THEN UpperLetters[CHOOSE i \in 1..26 : LowerLetters[i] = c]
    ELSE c
LowerChar(c) ==
    IF \E i \in 1..26 : UpperLetters[i] = c
    THEN LowerLetters[CHOOSE i \in 1..26 : UpperLetters[i] = c]
    ELSE c

\* str.upper() and str.lower()
Upper(cs) == [i \in 1..Len(cs) |-> UpperChar(cs[i])]
Lower(cs) == [i \in 1..Len(cs) |-> LowerChar(cs[i])]

\* str.strip(): drop leading and trailing whitespace
RECURSIVE LStrip(_)
LStrip(cs) ==
    IF cs # <<>> /\ IsSpace(Head(cs)) THEN LStrip(Tail(cs)) ELSE cs
RECURSIVE RStrip(_)
RStrip(cs) ==
    IF cs # <<>> /\ IsSpace(cs[Len(cs)])
    THEN RStrip(SubSeq(cs, 1, Len(cs) - 1))
    ELSE cs
Strip(cs) == RStrip(LStrip(cs))

\* the text of a str, for interpolation into an f-string
RECURSIVE JoinChars(_)
JoinChars(cs) ==
    IF cs = <<>> THEN "" ELSE Head(cs) \o JoinChars(Tail(cs))

\* the value of a run of decimal digits
RECURSIVE DigitsVal(_)
DigitsVal(cs) ==
    IF cs = <<>> THEN 0
    ELSE 10 * DigitsVal(SubSeq(cs, 1, Len(cs) - 1)) + DigitVal(cs[Len(cs)])

AllDigits(cs) == \A i \in 1..Len(cs) : IsDigit(cs[i])

(***************************************************************************)
(* Floats (hundredths)                                                     *)
(***************************************************************************)
Abs(n) == IF n < 0 THEN -n ELSE n

\* repr() of the double nearest to c/100, as an f-string interpolates it
ReprFloat(c) ==
    LET a == Abs(c)
        w == a \div 100
        f == a % 100
        fs == IF f % 10 = 0 THEN ToString(f \div 10)
              ELSE IF f < 10 THEN "0" \o ToString(f)
              ELSE ToString(f)
    IN (IF c < 0 THEN "-" ELSE "") \o ToString(w) \o "." \o fs

RECURSIVE Pow2(_)
Pow2(k) == IF k = 0 THEN 1 ELSE 2 * Pow2(k - 1)

\* 2^k mod 25
RECURSIVE Pow2Mod25(_)
Pow2Mod25(k) == IF k = 0 THEN 1 ELSE (2 * Pow2Mod25(k - 1)) % 25

\* binary exponent of c/100 relative to that of 0.01 (which is 2^-7):
\* the largest e with 2^e <= c * 128 / 100, for c >= 1
RECURSIVE FloatExp(_, _)
FloatExp(c, e) ==
    IF Pow2(e + 1) * 25 <= c * 32 THEN FloatExp(c, e + 1) ELSE e

\* representation error of the double nearest to c/100 (c >= 1), in units
\* of ulp/25: the double is c/100 + FloatErr(c)/25 ulp
FloatErr(c) ==
    LET q == ((c % 25) * Pow2Mod25(57 - FloatExp(c, 0))) % 25
    IN IF q <= 12 THEN -q ELSE 25 - q

\* abs(a - b) > 0.01 in IEEE double arithmetic, for a and b the doubles
\* nearest to x/100 and y/100.  A gap of two hundredths or more exceeds the
\* tolerance and an equal pair does not; for a gap of one hundredth the
\* subtraction is exact and the outcome is decided by the representation
\* errors of the two operands against that of the literal 0.01 (3/25 ulp).
FloatAbsDiffGtTol(x, y) ==
    LET d == Abs(x - y)
        hi == IF Abs(x) > Abs(y) THEN Abs(x) ELSE Abs(y)
        lo == IF Abs(x) > Abs(y) THEN Abs(y) ELSE Abs(x)
    IN IF d >= 2 THEN TRUE
       ELSE IF d = 0 THEN FALSE
       ELSE IF lo = 0 THEN FALSE
       ELSE FloatErr(hi) * Pow2(FloatExp(hi, 0))
              - FloatErr(lo) * Pow2(FloatExp(lo, 0)) > 3

(***************************************************************************)
(* datetime.strptime(value, "%Y-%m-%d")                                    *)
(***************************************************************************)
ValueError == [ok |-> FALSE]

IsLeap(y) == (y % 4 = 0 /\ y % 100 # 0) \/ y % 400 = 0
DaysInMonth(y, m) ==
    IF m = 2 THEN (IF IsLeap(y) THEN 29 ELSE 28)
    ELSE IF m \in {4, 6, 9, 11} THEN 30 ELSE 31

\* the %m directive: 1[0-2] | 0[1-9] | [1-9]
MonthToken(cs) ==
    \/ Len(cs) = 1 /\ IsDigit(cs[1]) /\ cs[1] # "0"
    \/ Len(cs) = 2 /\ cs[1] = "1" /\ cs[2] \in {"0", "1", "2"}
    \/ Len(cs) = 2 /\ cs[1] = "0" /\ IsDigit(cs[2]) /\ cs[2] # "0"

\* the %d directive: 3[0-1] | [1-2]\d | 0[1-9] | [1-9] | " "[1-9]
DayToken(cs) ==
    \/ Len(cs) = 1 /\ IsDigit(cs[1]) /\ cs[1] # "0"
    \/ Len(cs) = 2 /\ cs[1] = "3" /\ cs[2] \in {"0", "1"}
    \/ Len(cs) = 2 /\ cs[1] \in {"1", "2"} /\ IsDigit(cs[2])
    \/ Len(cs) = 2 /\ cs[1] \in {"0", " "} /\ IsDigit(cs[2]) /\ cs[2] # "0"

TokenVal(cs) == DigitsVal(SelectSeq(cs, IsDigit))

\* The whole string must match \d\d\d\d-%m-%d (no text may remain) and name
\* a date of the calendar, with year >= 1; anything else is a ValueError.
Strptime(cs) ==
    IF Len(cs) < 8 \/ ~AllDigits(SubSeq(cs, 1, 4)) \/ cs[5] # "-"
    THEN ValueError
    ELSE LET rest == SubSeq(cs, 6, Len(cs))
             dashes == {i \in 1..Len(rest) : rest[i] = "-"}
         IN IF dashes = {} THEN ValueError
            ELSE LET p == CHOOSE i \in dashes : \A j \in dashes : i <= j
                     mtok == SubSeq(rest, 1, p - 1)
                     dtok == SubSeq(rest, p + 1, Len(rest))
                 IN IF ~MonthToken(mtok) \/ ~DayToken(dtok) THEN ValueError
                    ELSE LET y == DigitsVal(SubSeq(cs, 1, 4))
                             m == TokenVal(mtok)
                             d == TokenVal(dtok)
                         IN IF y < 1 \/ d > DaysInMonth(y, m)
                            THEN ValueError
                            ELSE [ok |-> TRUE, year |-> y, month |-> m,
                                  day |-> d]

\* datetime.__lt__
DateLess(a, b) ==
    \/ a.year < b.year
    \/ a.year = b.year /\ a.month < b.month
    \/ a.year = b.year /\ a.month = b.month /\ a.day < b.day

(***************************************************************************)
(* schema.py                                                               *)
(***************************************************************************)
LineItem(desc, qty, price, total) ==
    [description |-> desc, quantity |-> qty, unit_price |-> price,
     line_total |-> total]

\* Invoice(): every field None, no line items
Invoice ==
    [invoice_number |-> None, external_reference |-> None,
     invoice_date |-> None, due_date |-> None,
     seller_name |-> None, seller_address |-> None, seller_tax_id |-> None,
     buyer_name |-> None, buyer_address |-> None, buyer_tax_id |-> None,
     currency |-> None, net_total |-> None, tax_amount |-> None,
     gross_total |-> None, tax_rate |-> None, line_items |-> <<>>]

(***************************************************************************)
(* validator.py: the rules.  A rule's outcome is no error, an error code,  *)
(* or an exception that leaves validate().                                 *)
(***************************************************************************)
NoError == [k |-> "none"]
Error(msg) == [k |-> "error", msg |-> msg]
Raise(exc) == [k |-> "raise", exc |-> exc]

CompletenessRule(field_name, invoice) ==
    LET value == invoice[field_name]
    IN IF ~Truthy(value) \/ (IsStr(value) /\ Strip(value.v) = <<>>)
       THEN Error("missing_field: " \o field_name)
       ELSE NoError

DateFormatRule(field_name, invoice, now) ==
    LET value == invoice[field_name]
    IN IF ~Truthy(value) THEN NoError
       ELSE IF ~IsStr(value) THEN Raise("TypeError")
       ELSE LET dt == Strptime(value.v)
            IN IF ~dt.ok THEN Error("invalid_date_format: " \o field_name)
               ELSE IF dt.year < now - 50 \/ dt.year > now + 10
               THEN Error("date_out_of_range: " \o field_name)
               ELSE NoError

ALLOWED_CURRENCIES ==
    { <<"E","U","R">>, <<"U","S","D">>, <<"G","B","P">>, <<"I","N","R">>,
      <<"C","H","F">>, <<"J","P","Y">>, <<"A","U","D">>, <<"C","A","D">> }

CurrencyRule(invoice) ==
    LET currency == invoice.currency
    IN IF ~Truthy(currency) THEN NoError
       ELSE IF ~IsStr(currency) THEN Raise("AttributeError")
       ELSE IF Upper(currency.v) \notin ALLOWED_CURRENCIES
       THEN Error("invalid_currency: " \o JoinChars(currency.v))
       ELSE NoError

AmountSignRule(field_name, invoice) ==
    LET value == invoice[field_name]
    IN IF IsNone(value) THEN NoError
       ELSE IF ~IsNum(value) THEN Raise("TypeError")
       ELSE IF value.v < 0 THEN Error("negative_amount: " \o field_name)
       ELSE NoError

TotalConsistencyRule(invoice) ==
    IF ~IsNone(invoice.net_total) /\ ~IsNone(invoice.tax_amount)
       /\ ~IsNone(invoice.gross_total)
    THEN IF ~IsNum(invoice.net_total) \/ ~IsNum(invoice.tax_amount)
            \/ ~IsNum(invoice.gross_total)
         THEN Raise("TypeError")
         ELSE LET expected_gross == invoice.net_total.v + invoice.tax_amount.v
                  actual_gross == invoice.gross_total.v
              IN IF FloatAbsDiffGtTol(expected_gross, actual_gross)
                 THEN Error("business_rule_failed: totals_mismatch "
                            \o "(expected " \o ReprFloat(expected_gross)
                            \o ", got " \o ReprFloat(actual_gross) \o ")")
                 ELSE NoError
    ELSE NoError

\* DueDateRule comparing with <= instead of <
DueDateRuleNotAfter(invoice) ==
    IF Truthy(invoice.invoice_date) /\ Truthy(invoice.due_date)
    THEN IF ~IsStr(invoice.invoice_date) THEN Raise("TypeError")
         ELSE LET inv_date == Strptime(invoice.invoice_date.v)
              IN IF ~inv_date.ok THEN NoError
                 ELSE IF ~IsStr(invoice.due_date) THEN Raise("TypeError")
                 ELSE LET due_date == Strptime(invoice.due_date.v)
                      IN IF ~due_date.ok THEN NoError
                         ELSE IF ~DateLess(inv_date, due_date)
                         THEN Error("business_rule_failed: "
                                    \o "due_date_before_invoice_date")
                         ELSE NoError
    ELSE NoError

DueDateRule(invoice) ==
    IF Truthy(invoice.invoice_date) /\ Truthy(invoice.due_date)
    THEN IF ~IsStr(invoice.invoice_date) THEN Raise("TypeError")
         ELSE LET inv_date == Strptime(invoice.invoice_date.v)
              IN IF ~inv_date.ok THEN NoError
                 ELSE IF ~IsStr(invoice.due_date) THEN Raise("TypeError")
                 ELSE LET due_date == Strptime(invoice.due_date.v)
                      IN IF ~due_date.ok THEN NoError
                         ELSE IF DateLess(due_date, inv_date)
                         THEN Error("business_rule_failed: "
                                    \o "due_date_before_invoice_date")
                         ELSE NoError
    ELSE NoError

\* sum(item.line_total for item in line_items if item.line_total is not None)
RECURSIVE SumLineTotals(_)
SumLineTotals(items) ==
    IF items = <<>> THEN 0
    ELSE (IF IsNone(Head(items).line_total) THEN 0
          ELSE Head(items).line_total.v) + SumLineTotals(Tail(items))

\* sum() starts from the int 0: the sum is a float once a float was added
SumIsFloat(items) == \E i \in 1..Len(items) : ~IsNone(items[i].line_total)

LineItemsConsistencyRule(invoice) ==
    IF invoice.line_items # <<>> /\ ~IsNone(invoice.net_total)
    THEN IF \E i \in 1..Len(invoice.line_items) :
                 /\ ~IsNone(invoice.line_items[i].line_total)
                 /\ ~IsNum(invoice.line_items[i].line_total)
         THEN Raise("TypeError")
         ELSE LET items_sum == SumLineTotals(invoice.line_items)
              IN IF items_sum > 0 /\ ~IsNum(invoice.net_total)
                 THEN Raise("TypeError")
                 ELSE IF items_sum > 0
                    /\ FloatAbsDiffGtTol(items_sum, invoice.net_total.v)
                 THEN Error("business_rule_failed: line_items_sum_mismatch "
                            \o "(items sum "
                            \o (IF SumIsFloat(invoice.line_items)
                                THEN ReprFloat(items_sum)
                                ELSE ToString(items_sum))
                            \o ", net total "
                            \o ReprFloat(invoice.net_total.v) \o ")")
                 ELSE NoError
    ELSE NoError

\* re.match(r"^[A-Z]{2}\d{9,12}$", value): two capital letters and nine to
\* twelve digits; "$" also matches before a final newline
MatchesVatId(cs) ==
    LET body == IF cs # <<>> /\ cs[Len(cs)] = "\n"
                THEN SubSeq(cs, 1, Len(cs) - 1) ELSE cs
    IN /\ Len(body) \in 11..14
       /\ \A i \in 1..2 : \E k \in 1..26 : UpperLetters[k] = body[i]
       /\ \A i \in 3..Len(body) : IsDigit(body[i])

\* TaxIDFormatRule.validate
TaxIDFormatRule(field_name, invoice) ==
    LET value == invoice[field_name]
    IN IF ~Truthy(value) THEN NoError
       ELSE IF ~IsStr(value) THEN Raise("TypeError")
       ELSE IF ~MatchesVatId(value.v)
       THEN Error("invalid_tax_id_format: " \o field_name)
       ELSE NoError

\* PartyNamesRule comparing the names as written
PartyNamesRuleExact(invoice) ==
    IF Truthy(invoice.seller_name) /\ Truthy(invoice.buyer_name)
    THEN IF ~IsStr(invoice.seller_name) \/ ~IsStr(invoice.buyer_name)
         THEN Raise("AttributeError")
         ELSE IF invoice.seller_name.v = invoice.buyer_name.v
         THEN Error("business_rule_failed: seller_and_buyer_same")
         ELSE NoError
    ELSE NoError

PartyNamesRule(invoice) ==
    IF Truthy(invoice.seller_name) /\ Truthy(invoice.buyer_name)
    THEN IF ~IsStr(invoice.seller_name) \/ ~IsStr(invoice.buyer_name)
         THEN Raise("AttributeError")
         ELSE IF Strip(Lower(invoice.seller_name.v))
                 = Strip(Lower(invoice.buyer_name.v))
         THEN Error("business_rule_failed: seller_and_buyer_same")
         ELSE NoError
    ELSE NoError

(***************************************************************************)
(* validator.py: InvoiceValidator                                          *)
(***************************************************************************)
Rule(kind, field_name) == [kind |-> kind, field_name |-> field_name]

\* the default rules with the tax-id rules of both parties added
DefaultRulesWithTaxID ==
    << Rule("Completeness", "invoice_number"),
       Rule("Completeness", "invoice_date"),
       Rule("Completeness", "seller_name"),
       Rule("Completeness", "buyer_name"),
       Rule("DateFormat", "invoice_date"),
       Rule("DateFormat", "due_date"),
       Rule("Currency", ""),
       Rule("AmountSign", "net_total"),
       Rule("AmountSign", "tax_amount"),
       Rule("AmountSign", "gross_total"),
       Rule("TotalConsistency", ""),
       Rule("DueDate", ""),
       Rule("LineItemsConsistency", ""),
       Rule("TaxIDFormat", "seller_tax_id"),
       Rule("TaxIDFormat", "buyer_tax_id"),
       Rule("PartyNames", "") >>

\* the rule list with the party-names rule registered first
DefaultRulesPartyFirst ==
    << Rule("PartyNames", ""),
       Rule("Completeness", "invoice_number"),
       Rule("Completeness", "invoice_date"),
       Rule("Completeness", "seller_name"),
       Rule("Completeness", "buyer_name"),
       Rule("DateFormat", "invoice_date"),
       Rule("DateFormat", "due_date"),
       Rule("Currency", ""),
       Rule("AmountSign", "net_total"),
       Rule("AmountSign", "tax_amount"),
       Rule("AmountSign", "gross_total"),
       Rule("TotalConsistency", ""),
       Rule("DueDate", ""),
       Rule("LineItemsConsistency", "") >>

\* InvoiceValidator.__init__: self.rules
DefaultRules ==
    << Rule("Completeness", "invoice_number"),
       Rule("Completeness", "invoice_date"),
       Rule("Completeness", "seller_name"),
       Rule("Completeness", "buyer_name"),
       Rule("DateFormat", "invoice_date"),
       Rule("DateFormat", "due_date"),
       Rule("Currency", ""),
       Rule("AmountSign", "net_total"),
       Rule("AmountSign", "tax_amount"),
       Rule("AmountSign", "gross_total"),
       Rule("TotalConsistency", ""),
       Rule("DueDate", ""),
       Rule("LineItemsConsistency", ""),
       Rule("PartyNames", "") >>

\* rule.validate(invoice), dispatched on the rule's class
RuleValidate(rule, invoice, now) ==
    CASE rule.kind = "Completeness" ->
             CompletenessRule(rule.field_name, invoice)
      [] rule.kind = "DateFormat" ->
             DateFormatRule(rule.field_name, invoice, now)
      [] rule.kind = "Currency" -> CurrencyRule(invoice)
      [] rule.kind = "AmountSign" ->
             AmountSignRule(rule.field_name, invoice)
      [] rule.kind = "TotalConsistency" -> TotalConsistencyRule(invoice)
      [] rule.kind = "DueDate" -> DueDateRule(invoice)
      [] rule.kind = "LineItemsConsistency" ->
             LineItemsConsistencyRule(invoice)
      [] rule.kind = "TaxIDFormat" ->
             TaxIDFormatRule(rule.field_name, invoice)
      [] rule.kind = "PartyNames" -> PartyNamesRule(invoice)

\* the loop of validate_invoice over self.rules: the errors collected, or
\* the exception of the first rule that raises
RECURSIVE CollectErrors(_, _, _, _)
CollectErrors(rs, invoice, now, errors) ==
    IF rs = <<>> THEN [k |-> "errors", errors |-> errors]
    ELSE LET error == RuleValidate(Head(rs), invoice, now)
         IN IF error.k = "raise" THEN error
            ELSE CollectErrors(Tail(rs), invoice, now,
                               IF error.k = "error"
                               THEN Append(errors, error.msg)
                               ELSE errors)

UNKNOWN == Str(<<"U","N","K","N","O","W","N">>)

\* validate_invoice without the "UNKNOWN" fallback of invoice_id
validate_invoice_no_fallback(rs, invoice, now) ==
    LET c == CollectErrors(rs, invoice, now, <<>>)
    IN IF c.k = "raise" THEN c
       ELSE [k |-> "result",
             invoice_id |-> invoice.invoice_number,
             is_valid |-> Len(c.errors) = 0,
             errors |-> c.errors]

\* InvoiceValidator.validate_invoice, with the rule list rs and the year
\* datetime.now() reports
validate_invoice(rs, invoice, now) ==
    LET c == CollectErrors(rs, invoice, now, <<>>)
    IN IF c.k = "raise" THEN c
       ELSE [k |-> "result",
             invoice_id |-> IF Truthy(invoice.invoice_number)
                            THEN invoice.invoice_number ELSE UNKNOWN,
             is_valid |-> Len(c.errors) = 0,
             errors |-> c.errors]

(***************************************************************************)
(* State                                                                   *)
(***************************************************************************)
VARIABLES
    command,       \* the entry point that runs
    path_exists,   \* Path(args.pdf_dir / args.input).exists()
    pdf_files,     \* the documents of the folder, in the order glob yields
    json_data,     \* the records of the input file or of the request body
    pc,            \* position of the running entry point
    files,         \* extract_from_folder: the sorted documents
    invoices,      \* the list of Invoice objects
    rules,         \* InvoiceValidator.rules
    now,           \* the year datetime.now() reports
    results,       \* validate_invoices: results
    validated_at,  \* the value of now when each result was computed
    error_counts,  \* validate_invoices: error_counts
    summary,       \* the summary returned by validate_invoices
    stdout,        \* what the entry point has printed
    exit_code,     \* exit status of the CLI process, -1 while it runs
    http_status,   \* status of the HTTP response, 0 before it is sent
    calls,         \* number of validate_invoices calls made on the validator
    prev_summary,  \* the summary of the previous call
    prev_validated_at, \* validated_at of the previous call
    amount_in,     \* _parse_amount: the argument
    amount_out,    \* _parse_amount: the value returned or the exception
    reloaded,      \* load_invoices_from_json: the list returned
    date_str,      \* _normalize_date: the argument
    normalized,    \* _normalize_date: the values returned by successive calls
    pads_year      \* whether the platform's strftime pads %Y to four digits

vars == <<command, path_exists, pdf_files, json_data, pc, files, invoices,
          rules, now, results, validated_at, error_counts, summary, stdout,
          exit_code, http_status, calls, prev_summary, prev_validated_at,
          amount_in, amount_out, reloaded, date_str, normalized, pads_year>>

NoSummary == [k |-> "none"]
NotParsed == [k |-> "pending"]
EmptyCounts == [e \in {} |-> 0]

(***************************************************************************)
(* Bounds and input domains                                                *)
(***************************************************************************)
\* the year datetime.now() reports at the start, and how many times the
\* year may change while the program runs
BaseYear == 2026
MaxTicks == 1
MaxYear == BaseYear + MaxTicks

S_INV1 == <<"I","N","V","-","1">>
S_INV2 == <<"I","N","V","-","2">>
S_BLANK == <<" ">>
S_ACME == <<"A","c","m","e">>
S_ACME2 == <<" ","A","C","M","E"," ">>
S_BOLT == <<"B","o","l","t">>
S_EUR_LOWER == <<"e","u","r">>
S_USD == <<"U","S","D">>
S_XYZ == <<"X","Y","Z">>
S_WIDGET == <<"W","i","d","g","e","t">>
D_2024_01_10 == <<"2","0","2","4","-","0","1","-","1","0">>
D_2024_01_05 == <<"2","0","2","4","-","0","1","-","0","5">>
D_2024_02_30 == <<"2","0","2","4","-","0","2","-","3","0">>
D_1976_05_01 == <<"1","9","7","6","-","0","5","-","0","1">>
D_MARCH == <<"M","a","r","c","h">>

\* line totals are multiples of 0.25, so that their float sum is exact
Items0 == <<>>
Items1 == << LineItem(Str(S_WIDGET), Num(100), Num(10000), Num(10000)) >>
Items2 == << LineItem(Str(S_WIDGET), Num(200), Num(2500), Num(5000)),
             LineItem(None, None, None, None) >>

\* the invoices of the single-invoice specification: every combination of
\* the field values below
TypedInvoices ==
    { [Invoice EXCEPT !.invoice_number = nr, !.invoice_date = idate,
                      !.due_date = ddate, !.seller_name = seller,
                      !.buyer_name = buyer, !.currency = cur,
                      !.net_total = net, !.tax_amount = tax,
                      !.gross_total = gross, !.line_items = items] :
        nr \in {None, Str(<<>>), Str(S_INV1), Str(S_BLANK)},
        idate \in {None, Str(D_2024_01_10), Str(D_MARCH), Str(D_1976_05_01)},
        ddate \in {None, Str(D_2024_01_05), Str(D_2024_02_30)},
        seller \in {None, Str(S_ACME)},
        buyer \in {None, Str(S_ACME2), Str(S_BOLT)},
        cur \in {None, Str(S_EUR_LOWER), Str(S_XYZ)},
        net \in {None, Num(10000), Num(-500)},
        tax \in {None, Num(2000)},
        gross \in {None, Num(12000), Num(12001), Num(12002)},
        items \in {Items0, Items2} }

(***************************************************************************)
(* The clock                                                               *)
(***************************************************************************)
\* time passes: the year datetime.now() reports advances
Tick ==
    /\ now < MaxYear
    /\ now' = now + 1
    /\ UNCHANGED <<command, path_exists, pdf_files, json_data, pc, files,
                   invoices, rules, results, validated_at, error_counts,
                   summary, stdout, exit_code, http_status, calls,
                   prev_summary, prev_validated_at, amount_in, amount_out,
                   reloaded, date_str, normalized, pads_year>>

(***************************************************************************)
(* Single-invoice specification: InvoiceValidator().validate_invoice(inv)  *)
(***************************************************************************)
InitOne ==
    /\ command = "validate_invoice"
    /\ path_exists = TRUE
    /\ pdf_files = <<>>
    /\ json_data = <<>>
    /\ pc = "validating"
    /\ files = <<>>
    /\ invoices \in {<<inv>> : inv \in TypedInvoices}
    /\ rules = DefaultRules
    /\ now = BaseYear
    /\ results = <<>>
    /\ validated_at = <<>>
    /\ error_counts = EmptyCounts
    /\ summary = NoSummary
    /\ stdout = <<>>
    /\ exit_code = -1
    /\ http_status = 0
    /\ calls = 0
    /\ prev_summary = NoSummary
    /\ prev_validated_at = <<>>
    /\ amount_in = <<>>
    /\ amount_out = NotParsed
    /\ reloaded = <<>>
    /\ date_str = <<>>
    /\ normalized = <<>>
    /\ pads_year = TRUE

\* one call of validate_invoice on the invoice
ValidateOne ==
    /\ command = "validate_invoice"
    /\ pc = "validating"
    /\ LET result == validate_invoice(rules, invoices[1], now)
       IN /\ results' = IF result.k = "raise" THEN results
                        ELSE Append(results, result)
          /\ validated_at' = IF result.k = "raise" THEN validated_at
                             ELSE Append(validated_at, now)
    /\ pc' = "exited"
    /\ calls' = calls + 1
    /\ UNCHANGED <<command, path_exists, pdf_files, json_data, files,
                   invoices, rules, now, error_counts, summary, stdout,
                   exit_code, http_status, prev_summary, prev_validated_at,
                   amount_in, amount_out,
                   reloaded, date_str, normalized, pads_year>>

NextOne == ValidateOne \/ Tick

SpecOne == InitOne /\ [][NextOne]_vars

(***************************************************************************)
(* Dates-and-parties specification: validate_invoice on invoices that vary *)
(* in their dates, party names and tax ids                                 *)
(***************************************************************************)
D_2024_1_5 == <<"2","0","2","4","-","1","-","5">>
D_2023_12_31 == <<"2","0","2","3","-","1","2","-","3","1">>
S_ACME_LOWER == <<"a","c","m","e">>
T_DE123456789 == <<"D","E","1","2","3","4","5","6","7","8","9">>
T_BAD == <<"b","a","d">>

DateValues ==
    {None, Str(<<>>), Str(D_2024_01_10), Str(D_2024_01_05), Str(D_2024_1_5),
     Str(D_2024_02_30), Str(D_MARCH), Str(D_2023_12_31)}

DateInvoices ==
    { [Invoice EXCEPT !.invoice_number = Str(S_INV1),
                      !.invoice_date = idate, !.due_date = ddate,
                      !.seller_name = seller, !.buyer_name = buyer,
                      !.seller_tax_id = stax, !.buyer_tax_id = btax] :
        idate \in DateValues,
        ddate \in DateValues,
        seller \in {None, Str(<<>>), Str(S_ACME), Str(S_BLANK)},
        buyer \in {None, Str(<<>>), Str(S_ACME), Str(S_ACME2), Str(S_BLANK),
                   Str(S_BOLT)},
        stax \in {None, Str(T_DE123456789), Str(T_BAD)},
        btax \in {None, Str(T_BAD)} }

InitDates ==
    /\ command = "validate_invoice"
    /\ path_exists = TRUE
    /\ pdf_files = <<>>
    /\ json_data = <<>>
    /\ pc = "validating"
    /\ files = <<>>
    /\ invoices \in {<<inv>> : inv \in DateInvoices}
    /\ rules = DefaultRules
    /\ now = BaseYear
    /\ results = <<>>
    /\ validated_at = <<>>
    /\ error_counts = EmptyCounts
    /\ summary = NoSummary
    /\ stdout = <<>>
    /\ exit_code = -1
    /\ http_status = 0
    /\ calls = 0
    /\ prev_summary = NoSummary
    /\ prev_validated_at = <<>>
    /\ amount_in = <<>>
    /\ amount_out = NotParsed
    /\ reloaded = <<>>
    /\ date_str = <<>>
    /\ normalized = <<>>
    /\ pads_year = TRUE

NextDates == ValidateOne \/ Tick

SpecDates == InitDates /\ [][NextDates]_vars

(***************************************************************************)
(* schema.py / cli.py: the wire form of an invoice and the JSON loader     *)
(***************************************************************************)
InvoiceFields == DOMAIN Invoice
LineItemFields == {"description", "quantity", "unit_price", "line_total"}

\* to_dict leaving the key line_items out when there are no line items
to_dict_omitting_empty_items(invoice) ==
    [f \in (IF invoice.line_items = <<>> THEN InvoiceFields \ {"line_items"}
            ELSE InvoiceFields) |->
        IF f = "line_items"
        THEN [i \in 1..Len(invoice.line_items) |->
                 [g \in LineItemFields |-> invoice.line_items[i][g]]]
        ELSE invoice[f]]

\* Invoice.to_dict
to_dict(invoice) ==
    [f \in InvoiceFields |->
        IF f = "line_items"
        THEN [i \in 1..Len(invoice.line_items) |->
                 [g \in LineItemFields |-> invoice.line_items[i][g]]]
        ELSE invoice[f]]

\* LineItem(**item_dict) raises a TypeError for an unknown keyword
LineItemDictOk(item_dict) == DOMAIN item_dict \subseteq LineItemFields

\* LineItem(**item_dict): an absent keyword takes the default None
LineItemFromDict(item_dict) ==
    [g \in LineItemFields |->
        IF g \in DOMAIN item_dict THEN item_dict[g] ELSE None]

\* does the body of the loop of load_invoices_from_json complete for the
\* record: every line item and the record itself name known fields only
InvoiceDictOk(raw_invoice_data) ==
    /\ "line_items" \in DOMAIN raw_invoice_data =>
          \A i \in 1..Len(raw_invoice_data.line_items) :
              LineItemDictOk(raw_invoice_data.line_items[i])
    /\ DOMAIN raw_invoice_data \subseteq InvoiceFields

\* Invoice(**raw_invoice_data), the line items rebuilt as LineItem objects
InvoiceFromDict(raw_invoice_data) ==
    [f \in InvoiceFields |->
        IF f \notin DOMAIN raw_invoice_data THEN Invoice[f]
        ELSE IF f = "line_items"
        THEN [i \in 1..Len(raw_invoice_data.line_items) |->
                 LineItemFromDict(raw_invoice_data.line_items[i])]
        ELSE raw_invoice_data[f]]

\* load_invoices_from_json on the records of the file: the invoices, or the
\* TypeError of the first record that cannot be constructed
load_invoices_from_json(data) ==
    IF \E i \in 1..Len(data) : ~InvoiceDictOk(data[i])
    THEN Raise("TypeError")
    ELSE [k |-> "invoices",
          invoices |-> [i \in 1..Len(data) |-> InvoiceFromDict(data[i])]]

(***************************************************************************)
(* Round-trip specification: save_invoices_to_json followed by             *)
(* load_invoices_from_json                                                 *)
(***************************************************************************)
S_MAIN_ST == <<"1"," ","M","a","i","n"," ","S","t">>
Items2Reversed == << Items2[2], Items2[1] >>
Items3 == << LineItem(Str(<<>>), Num(0), Num(-250), None) >>

WireInvoices ==
    { [Invoice EXCEPT !.invoice_number = nr, !.external_reference = ref,
                      !.invoice_date = idate, !.seller_address = addr,
                      !.buyer_tax_id = btax, !.currency = cur,
                      !.net_total = net, !.tax_rate = rate,
                      !.line_items = items] :
        nr \in {None, Str(<<>>), Str(S_INV1)},
        ref \in {None, Str(S_INV2)},
        idate \in {None, Str(D_MARCH)},
        addr \in {None, Str(S_MAIN_ST)},
        btax \in {None, Str(T_DE123456789)},
        cur \in {None, Str(S_USD)},
        net \in {None, Num(0), Num(-500)},
        rate \in {None, Num(1900)},
        items \in {Items0, Items1, Items2, Items2Reversed, Items3} }

InitRoundTrip ==
    /\ command = "round_trip"
    /\ path_exists = TRUE
    /\ pdf_files = <<>>
    /\ json_data = <<>>
    /\ pc = "start"
    /\ files = <<>>
    /\ invoices \in {<<inv>> : inv \in WireInvoices}
    /\ rules = DefaultRules
    /\ now = BaseYear
    /\ results = <<>>
    /\ validated_at = <<>>
    /\ error_counts = EmptyCounts
    /\ summary = NoSummary
    /\ stdout = <<>>
    /\ exit_code = -1
    /\ http_status = 0
    /\ calls = 0
    /\ prev_summary = NoSummary
    /\ prev_validated_at = <<>>
    /\ amount_in = <<>>
    /\ amount_out = NotParsed
    /\ reloaded = <<>>
    /\ date_str = <<>>
    /\ normalized = <<>>
    /\ pads_year = TRUE

\* save_invoices_to_json: the file holds to_dict() of every invoice
save_invoices_to_json ==
    /\ command = "round_trip"
    /\ pc = "start"
    /\ json_data' = [i \in 1..Len(invoices) |-> to_dict(invoices[i])]
    /\ pc' = "saved"
    /\ UNCHANGED <<command, path_exists, pdf_files, files, invoices, rules,
                   now, results, validated_at, error_counts, summary, stdout,
                   exit_code, http_status, calls, prev_summary,
                   prev_validated_at, amount_in, amount_out,
                   reloaded, date_str, normalized, pads_year>>

\* load_invoices_from_json on the saved file
LoadSaved ==
    /\ command = "round_trip"
    /\ pc = "saved"
    /\ LET data == load_invoices_from_json(json_data)
       IN IF data.k = "raise"
          THEN /\ pc' = "failed"
               /\ reloaded' = reloaded
          ELSE /\ pc' = "loaded"
               /\ reloaded' = data.invoices
    /\ UNCHANGED <<command, path_exists, pdf_files, json_data, files,
                   invoices, rules, now, results, validated_at, error_counts,
                   summary, stdout, exit_code, http_status, calls,
                   prev_summary, prev_validated_at, amount_in, amount_out,
                   date_str, normalized, pads_year>>

NextRoundTrip == save_invoices_to_json \/ LoadSaved

SpecRoundTrip == InitRoundTrip /\ [][NextRoundTrip]_vars

(***************************************************************************)
(* api.py: the request model                                               *)
(***************************************************************************)
StrFields == {"invoice_number", "external_reference", "invoice_date",
              "due_date", "seller_name", "seller_address", "seller_tax_id",
              "buyer_name", "buyer_address", "buyer_tax_id", "currency"}
FloatFields == {"net_total", "tax_amount", "gross_total", "tax_rate"}

\* InvoiceModel: does the record pass the request validation (Optional[str]
\* and Optional[float] fields; unknown keys are ignored)
InvoiceModelAccepts(raw) ==
    /\ \A f \in StrFields \cap DOMAIN raw : IsNone(raw[f]) \/ IsStr(raw[f])
    /\ \A f \in FloatFields \cap DOMAIN raw : IsNone(raw[f]) \/ IsNum(raw[f])
    /\ "line_items" \in DOMAIN raw =>
          \A i \in 1..Len(raw.line_items) :
              LET item == raw.line_items[i]
              IN /\ "description" \in DOMAIN item =>
                       IsNone(item.description) \/ IsStr(item.description)
                 /\ \A g \in (LineItemFields \ {"description"})
                               \cap DOMAIN item :
                        IsNone(item[g]) \/ IsNum(item[g])

\* the Invoice that validate_json builds from one accepted InvoiceModel
InvoiceFromModel(raw) ==
    [f \in InvoiceFields |->
        IF f = "line_items"
        THEN IF f \in DOMAIN raw
             THEN [i \in 1..Len(raw.line_items) |->
                      [g \in LineItemFields |->
                          IF g \in DOMAIN raw.line_items[i]
                          THEN raw.line_items[i][g] ELSE None]]
             ELSE <<>>
        ELSE IF f \in DOMAIN raw THEN raw[f] ELSE None]

(***************************************************************************)
(* Inputs of the commands                                                  *)
(***************************************************************************)
MaxBatch == 2    \* longest list of invoices validated
MaxDocs == 3     \* most documents in a folder
MaxCalls == 2    \* most validate_invoices calls on one validator

\* a valid invoice
I_valid ==
    [Invoice EXCEPT !.invoice_number = Str(S_INV1),
                    !.invoice_date = Str(D_2024_01_10),
                    !.due_date = Str(D_2024_01_10),
                    !.seller_name = Str(S_ACME), !.buyer_name = Str(S_BOLT),
                    !.currency = Str(S_USD), !.net_total = Num(10000),
                    !.tax_amount = Num(2000), !.gross_total = Num(12000),
                    !.line_items = Items1]
\* due before the invoice date, same parties, unknown currency, totals off
I_bad ==
    [Invoice EXCEPT !.invoice_number = Str(S_INV2),
                    !.invoice_date = Str(D_2024_01_10),
                    !.due_date = Str(D_2024_01_05),
                    !.seller_name = Str(S_ACME), !.buyer_name = Str(S_ACME2),
                    !.currency = Str(S_XYZ), !.net_total = Num(10000),
                    !.tax_amount = Num(2000), !.gross_total = Num(12002)]
\* no number, no parties, unparseable date, totals off by another amount
I_bad2 ==
    [Invoice EXCEPT !.invoice_date = Str(D_MARCH),
                    !.net_total = Num(10000), !.tax_amount = Num(2000),
                    !.gross_total = Num(12500), !.line_items = Items2]
\* an invoice dated at the edge of the accepted range of years
I_old ==
    [Invoice EXCEPT !.invoice_number = Str(S_INV1),
                    !.invoice_date = Str(D_1976_05_01),
                    !.seller_name = Str(S_ACME), !.buyer_name = Str(S_BOLT)]

SmallInvoices == {I_valid, I_bad, I_bad2, I_old}

\* records of a JSON file: complete records, a record with few keys, a
\* record with a string where a number belongs, a record with an unknown key
R_partial == [invoice_number |-> Str(S_INV2), seller_name |-> Str(S_ACME)]
R_illtyped ==
    [invoice_number |-> Str(S_INV1), net_total |-> Str(<<"a","b","c">>)]
R_unknown_key == [invoice_number |-> Str(S_INV1), notes |-> None]

RawRecords ==
    {to_dict(inv) : inv \in SmallInvoices}
        \cup {R_partial, R_illtyped, R_unknown_key}

Batches(S, n) == UNION {[1..k -> S] : k \in 0..n}

\* a document of the folder: its name (names are ordered as the integers)
\* and what extract_from_pdf does on it
DocOutcomes ==
    {Raise("Exception")} \cup {[k |-> "invoice", invoice |-> inv] :
                                  inv \in {I_valid, I_bad}}
Docs == [name : 1..MaxDocs, outcome : DocOutcomes]
Folders ==
    {f \in Batches(Docs, MaxDocs) :
        \A i, j \in 1..Len(f) : i # j => f[i].name # f[j].name}

CliCommands == {"extract", "validate", "full_run"}

(***************************************************************************)
(* The commands                                                            *)
(***************************************************************************)
Init ==
    /\ \/ /\ command \in {"extract", "full_run"}
          /\ \/ path_exists = TRUE /\ pdf_files \in Folders
             \/ path_exists = FALSE /\ pdf_files = <<>>
          /\ json_data = <<>>
          /\ invoices = <<>>
          /\ pc = "start"
       \/ /\ command = "validate"
          /\ \/ path_exists = TRUE /\ json_data \in Batches(RawRecords, MaxBatch)
             \/ path_exists = FALSE /\ json_data = <<>>
          /\ pdf_files = <<>>
          /\ invoices = <<>>
          /\ pc = "start"
       \/ /\ command = "validate_json"
          /\ path_exists = TRUE
          /\ json_data \in Batches(RawRecords, MaxBatch)
          /\ pdf_files = <<>>
          /\ invoices = <<>>
          /\ pc = "start"
       \/ /\ command = "validate_invoices"
          /\ path_exists = TRUE
          /\ json_data = <<>>
          /\ pdf_files = <<>>
          /\ invoices \in Batches(SmallInvoices, MaxBatch)
          /\ pc = "validating"
    /\ files = <<>>
    /\ rules = DefaultRules
    /\ now = BaseYear
    /\ results = <<>>
    /\ validated_at = <<>>
    /\ error_counts = EmptyCounts
    /\ summary = NoSummary
    /\ stdout = <<>>
    /\ exit_code = -1
    /\ http_status = 0
    /\ calls = 0
    /\ prev_summary = NoSummary
    /\ prev_validated_at = <<>>
    /\ amount_in = <<>>
    /\ amount_out = NotParsed
    /\ reloaded = <<>>
    /\ date_str = <<>>
    /\ normalized = <<>>
    /\ pads_year = TRUE

\* the documents as glob yields them, not sorted
Unsorted(docs) == docs

\* insertion of a document into a list sorted by name
RECURSIVE InsertByName(_, _)
InsertByName(doc, sorted) ==
    IF sorted = <<>> THEN <<doc>>
    ELSE IF doc.name < Head(sorted).name THEN <<doc>> \o sorted
    ELSE <<Head(sorted)>> \o InsertByName(doc, Tail(sorted))
RECURSIVE Sorted(_)
\* sorted(pdf_path.glob("*.pdf"))
Sorted(docs) ==
    IF docs = <<>> THEN <<>>
    ELSE InsertByName(Head(docs), Sorted(Tail(docs)))

\* cmd_extract and cmd_full_run up to the call of extract_invoices
cmd_extract_or_full_run ==
    /\ command \in {"extract", "full_run"}
    /\ pc = "start"
    /\ IF ~path_exists
       THEN /\ stdout' = Append(stdout, "Error: PDF directory not found")
            /\ exit_code' = 1
            /\ pc' = "exited"
            /\ files' = files
       ELSE /\ stdout' = Append(stdout, "Extracting invoices")
            /\ exit_code' = exit_code
            /\ pc' = "extracting"
            /\ files' = Sorted(pdf_files)
    /\ UNCHANGED <<command, path_exists, pdf_files, json_data, invoices,
                   rules, now, results, validated_at, error_counts, summary,
                   http_status, calls, prev_summary, prev_validated_at,
                   amount_in, amount_out,
                   reloaded, date_str, normalized, pads_year>>

\* extract_from_folder keeping an empty invoice for a document that failed
ExtractStepKeepingFailed ==
    /\ pc = "extracting"
    /\ files # <<>>
    /\ LET pdf_file == Head(files)
       IN IF pdf_file.outcome.k = "raise"
          THEN /\ stdout' = Append(stdout, "Error extracting "
                                           \o ToString(pdf_file.name))
               /\ invoices' = Append(invoices, Invoice)
          ELSE /\ invoices' = Append(invoices, pdf_file.outcome.invoice)
               /\ stdout' = stdout
    /\ files' = Tail(files)
    /\ UNCHANGED <<command, path_exists, pdf_files, json_data, pc, rules,
                   now, results, validated_at, error_counts, summary,
                   exit_code, http_status, calls, prev_summary,
                   prev_validated_at, amount_in, amount_out,
                   reloaded, date_str, normalized, pads_year>>

\* extract_from_folder: one iteration of the loop over the sorted documents
ExtractStep ==
    /\ pc = "extracting"
    /\ files # <<>>
    /\ LET pdf_file == Head(files)
       IN IF pdf_file.outcome.k = "raise"
          THEN /\ stdout' = Append(stdout, "Error extracting "
                                           \o ToString(pdf_file.name))
               /\ invoices' = invoices
          ELSE /\ invoices' = Append(invoices, pdf_file.outcome.invoice)
               /\ stdout' = stdout
    /\ files' = Tail(files)
    /\ UNCHANGED <<command, path_exists, pdf_files, json_data, pc, rules,
                   now, results, validated_at, error_counts, summary,
                   exit_code, http_status, calls, prev_summary,
                   prev_validated_at, amount_in, amount_out,
                   reloaded, date_str, normalized, pads_year>>

\* extract_invoices returns: cmd_extract reports and ends, cmd_full_run goes
\* on to validate_invoices(invoices)
ExtractReturn ==
    /\ pc = "extracting"
    /\ files = <<>>
    /\ stdout' = Append(stdout, "Extracted " \o ToString(Len(invoices))
                                \o " invoices")
    /\ IF command = "extract"
       THEN pc' = "exited" /\ exit_code' = 0
       ELSE pc' = "validating" /\ exit_code' = exit_code
    /\ UNCHANGED <<command, path_exists, pdf_files, json_data, files,
                   invoices, rules, now, results, validated_at, error_counts,
                   summary, http_status, calls, prev_summary,
                   prev_validated_at, amount_in, amount_out,
                   reloaded, date_str, normalized, pads_year>>

\* cmd_validate up to the call of validate_invoices; an exception of the
\* loader ends the process with a traceback and status 1
cmd_validate ==
    /\ command = "validate"
    /\ pc = "start"
    /\ IF ~path_exists
       THEN /\ stdout' = Append(stdout, "Error: Input file not found")
            /\ exit_code' = 1
            /\ pc' = "exited"
            /\ invoices' = invoices
       ELSE LET loaded == load_invoices_from_json(json_data)
            IN IF loaded.k = "raise"
               THEN /\ stdout' = stdout \o <<"Loading invoices", "Traceback">>
                    /\ exit_code' = 1
                    /\ pc' = "exited"
                    /\ invoices' = invoices
               ELSE /\ stdout' = stdout \o
                          <<"Loading invoices",
                            "Validating " \o ToString(Len(loaded.invoices))
                                \o " invoices">>
                    /\ exit_code' = exit_code
                    /\ pc' = "validating"
                    /\ invoices' = loaded.invoices
    /\ UNCHANGED <<command, path_exists, pdf_files, json_data, files, rules,
                   now, results, validated_at, error_counts, summary,
                   http_status, calls, prev_summary, prev_validated_at,
                   amount_in, amount_out,
                   reloaded, date_str, normalized, pads_year>>

\* the endpoint without its check for an empty list
validate_json_no_empty_check ==
    /\ command = "validate_json"
    /\ pc = "start"
    /\ IF \E i \in 1..Len(json_data) : ~InvoiceModelAccepts(json_data[i])
       THEN http_status' = 422 /\ pc' = "exited" /\ invoices' = invoices
       ELSE /\ http_status' = http_status
            /\ pc' = "validating"
            /\ invoices' = [i \in 1..Len(json_data) |->
                               InvoiceFromModel(json_data[i])]
    /\ UNCHANGED <<command, path_exists, pdf_files, json_data, files, rules,
                   now, results, validated_at, error_counts, summary, stdout,
                   exit_code, calls, prev_summary, prev_validated_at,
                   amount_in, amount_out,
                   reloaded, date_str, normalized, pads_year>>

\* POST /validate-json up to the call of validate_invoices: a body that
\* fails the request model is answered 422, an empty list 400
validate_json ==
    /\ command = "validate_json"
    /\ pc = "start"
    /\ IF \E i \in 1..Len(json_data) : ~InvoiceModelAccepts(json_data[i])
       THEN http_status' = 422 /\ pc' = "exited" /\ invoices' = invoices
       ELSE IF json_data = <<>>
       THEN http_status' = 400 /\ pc' = "exited" /\ invoices' = invoices
       ELSE /\ http_status' = http_status
            /\ pc' = "validating"
            /\ invoices' = [i \in 1..Len(json_data) |->
                               InvoiceFromModel(json_data[i])]
    /\ UNCHANGED <<command, path_exists, pdf_files, json_data, files, rules,
                   now, results, validated_at, error_counts, summary, stdout,
                   exit_code, calls, prev_summary, prev_validated_at,
                   amount_in, amount_out,
                   reloaded, date_str, normalized, pads_year>>

\* error_counts[error] = 1 for every error of a result: no accumulation
RECURSIVE CountErrorsNoIncrement(_, _)
CountErrorsNoIncrement(counts, errors) ==
    IF errors = <<>> THEN counts
    ELSE CountErrorsNoIncrement((Head(errors) :> 1) @@ counts, Tail(errors))

\* error_counts[error] += 1 for every error of a result, in order
RECURSIVE CountErrors(_, _)
CountErrors(counts, errors) ==
    IF errors = <<>> THEN counts
    ELSE LET error == Head(errors)
         IN CountErrors(IF error \in DOMAIN counts
                        THEN [counts EXCEPT ![error] = @ + 1]
                        ELSE (error :> 1) @@ counts,
                        Tail(errors))

\* validate_invoices: one iteration of the loop over the invoices.  An
\* exception of a rule leaves validate_invoices and is not caught by any
\* caller: the CLI process ends with a traceback and status 1, the HTTP
\* request is answered 500.
ValidateStep ==
    /\ command # "validate_invoice"
    /\ pc = "validating"
    /\ Len(results) < Len(invoices)
    /\ LET invoice == invoices[Len(results) + 1]
           result == validate_invoice(rules, invoice, now)
       IN IF result.k = "raise"
          THEN /\ summary' = result
               /\ pc' = "exited"
               /\ calls' = calls + 1
               /\ stdout' = IF command \in CliCommands
                            THEN Append(stdout, "Traceback") ELSE stdout
               /\ exit_code' = IF command \in CliCommands THEN 1
                               ELSE exit_code
               /\ http_status' = IF command = "validate_json" THEN 500
                                 ELSE http_status
               /\ UNCHANGED <<results, validated_at, error_counts>>
          ELSE /\ results' = Append(results, result)
               /\ validated_at' = Append(validated_at, now)
               /\ error_counts' = CountErrors(error_counts, result.errors)
               /\ UNCHANGED <<summary, pc, calls, stdout, exit_code,
                              http_status>>
    /\ UNCHANGED <<command, path_exists, pdf_files, json_data, files,
                   invoices, rules, now, prev_summary, prev_validated_at,
                   amount_in, amount_out,
                   reloaded, date_str, normalized, pads_year>>

\* a summary whose results are in reverse order of the input
SummaryReversed(invs, res, counts) ==
    LET valid_count == Cardinality({i \in 1..Len(res) : res[i].is_valid})
    IN [k |-> "summary",
        total_invoices |-> Len(invs),
        valid_invoices |-> valid_count,
        invalid_invoices |-> Len(res) - valid_count,
        error_counts |-> counts,
        results |-> [i \in 1..Len(res) |-> res[Len(res) + 1 - i]]]

\* the exit status of a validating command with the test inverted
CliExitStatusInverted(s) == IF s.invalid_invoices > 0 THEN 0 ELSE 1

\* sys.exit(1) if summary["invalid_invoices"] > 0, else a normal return
CliExitStatus(s) == IF s.invalid_invoices > 0 THEN 1 ELSE 0

\* the summary validate_invoices builds after its loop
Summary(invs, res, counts) ==
    LET valid_count == Cardinality({i \in 1..Len(res) : res[i].is_valid})
    IN [k |-> "summary",
        total_invoices |-> Len(invs),
        valid_invoices |-> valid_count,
        invalid_invoices |-> Len(res) - valid_count,
        error_counts |-> counts,
        results |-> res]

\* validate_invoices returns its summary; the CLI commands print it and exit
\* with status 1 if there are invalid invoices, the endpoint answers 200
ValidateReturn ==
    /\ command # "validate_invoice"
    /\ pc = "validating"
    /\ Len(results) = Len(invoices)
    /\ summary' = Summary(invoices, results, error_counts)
    /\ calls' = calls + 1
    /\ pc' = "exited"
    /\ stdout' = IF command \in CliCommands
                 THEN Append(stdout, "VALIDATION SUMMARY") ELSE stdout
    /\ exit_code' = IF command \in CliCommands
                    THEN CliExitStatus(summary') ELSE exit_code
    /\ http_status' = IF command = "validate_json" THEN 200 ELSE http_status
    /\ UNCHANGED <<command, path_exists, pdf_files, json_data, files,
                   invoices, rules, now, results, validated_at, error_counts,
                   prev_summary, prev_validated_at, amount_in,
                   amount_out,
                   reloaded, date_str, normalized, pads_year>>

\* a further call that finds the counters of the previous call
AgainKeepingCounts ==
    /\ command = "validate_invoices"
    /\ pc = "exited"
    /\ summary.k = "summary"
    /\ calls < MaxCalls
    /\ prev_summary' = summary
    /\ prev_validated_at' = validated_at
    /\ results' = <<>>
    /\ validated_at' = <<>>
    /\ summary' = NoSummary
    /\ pc' = "validating"
    /\ UNCHANGED <<command, path_exists, pdf_files, json_data, files,
                   invoices, rules, now, stdout, exit_code, http_status,
                   calls, error_counts, amount_in, amount_out,
                   reloaded, date_str, normalized, pads_year>>

\* a caller that holds the validator calls validate_invoices again on the
\* same list: results and error_counts are fresh locals of the call
Again ==
    /\ command = "validate_invoices"
    /\ pc = "exited"
    /\ summary.k = "summary"
    /\ calls < MaxCalls
    /\ prev_summary' = summary
    /\ prev_validated_at' = validated_at
    /\ results' = <<>>
    /\ validated_at' = <<>>
    /\ error_counts' = EmptyCounts
    /\ summary' = NoSummary
    /\ pc' = "validating"
    /\ UNCHANGED <<command, path_exists, pdf_files, json_data, files,
                   invoices, rules, now, stdout, exit_code, http_status,
                   calls, amount_in, amount_out,
                   reloaded, date_str, normalized, pads_year>>

Next ==
    \/ cmd_extract_or_full_run
    \/ ExtractStep
    \/ ExtractReturn
    \/ cmd_validate
    \/ validate_json
    \/ ValidateStep
    \/ ValidateReturn
    \/ Again
    \/ Tick

Spec == Init /\ [][Next]_vars

(***************************************************************************)
(* extractor.py: _parse_amount                                             *)
(***************************************************************************)
\* a float read from a decimal numeral: mant / 10^exp, without trailing
\* zeros in the fraction, so that equal values are equal records
RECURSIVE Float(_, _)
Float(mant, exp) ==
    IF exp > 0 /\ mant % 10 = 0 THEN Float(mant \div 10, exp - 1)
    ELSE [k |-> "float", mant |-> mant, exp |-> exp]

\* s.replace(old, new) for a one-character old and a new of zero or one
\* characters (a sequence)
RECURSIVE Replace(_, _, _)
Replace(cs, old, new) ==
    IF cs = <<>> THEN <<>>
    ELSE (IF Head(cs) = old THEN new ELSE <<Head(cs)>>)
            \o Replace(Tail(cs), old, new)

Contains(cs, c) == \E i \in 1..Len(cs) : cs[i] = c

\* s.rfind(c): the 0-based index of the last occurrence, -1 if none
RFind(cs, c) ==
    IF ~Contains(cs, c) THEN -1
    ELSE (CHOOSE i \in 1..Len(cs) :
              cs[i] = c /\ \A j \in (i + 1)..Len(cs) : cs[j] # c) - 1

\* float(s) on a string of digits, separators and blanks: surrounding
\* whitespace is ignored; what remains must be digits with at most one
\* ".", and at least one digit
ParseFloat(cs) ==
    LET s == Strip(cs)
        dots == {i \in 1..Len(s) : s[i] = "."}
    IN IF \/ \E i \in 1..Len(s) : ~IsDigit(s[i]) /\ s[i] # "."
          \/ Cardinality(dots) > 1
          \/ ~\E i \in 1..Len(s) : IsDigit(s[i])
       THEN Raise("ValueError")
       ELSE IF dots = {} THEN Float(DigitsVal(s), 0)
       ELSE LET p == CHOOSE i \in dots : TRUE
            IN Float(DigitsVal(SubSeq(s, 1, p - 1)
                               \o SubSeq(s, p + 1, Len(s))),
                     Len(s) - p)

\* _parse_amount with the comma taken as decimal separator when three
\* characters follow it
parse_amount_three_after(amount_str) ==
    LET s == Strip(amount_str)
    IN IF Contains(s, ",") /\ Contains(s, ".")
       THEN IF RFind(s, ",") > RFind(s, ".")
            THEN ParseFloat(Replace(Replace(s, ".", <<>>), ",", <<".">>))
            ELSE ParseFloat(Replace(s, ",", <<>>))
       ELSE IF Contains(s, ",")
       THEN LET comma_pos == RFind(s, ",")
            IN IF comma_pos > 0 /\ Len(s) - comma_pos = 4
               THEN ParseFloat(Replace(s, ",", <<".">>))
               ELSE ParseFloat(Replace(s, ",", <<>>))
       ELSE ParseFloat(s)

\* _parse_amount with the comma-only test made before the test for both
\* separators
parse_amount_comma_first(amount_str) ==
    LET s == Strip(amount_str)
        comma_pos == RFind(s, ",")
    IN IF Contains(s, ",") /\ comma_pos > 0 /\ Len(s) - comma_pos = 3
       THEN ParseFloat(Replace(s, ",", <<".">>))
       ELSE IF Contains(s, ",") /\ Contains(s, ".")
       THEN IF RFind(s, ",") > RFind(s, ".")
            THEN ParseFloat(Replace(Replace(s, ".", <<>>), ",", <<".">>))
            ELSE ParseFloat(Replace(s, ",", <<>>))
       ELSE ParseFloat(Replace(s, ",", <<>>))

\* InvoiceExtractor._parse_amount: the float, or the ValueError of float()
parse_amount(amount_str) ==
    LET s == Strip(amount_str)
    IN IF Contains(s, ",") /\ Contains(s, ".")
       THEN IF RFind(s, ",") > RFind(s, ".")
            THEN ParseFloat(Replace(Replace(s, ".", <<>>), ",", <<".">>))
            ELSE ParseFloat(Replace(s, ",", <<>>))
       ELSE IF Contains(s, ",")
       THEN LET comma_pos == RFind(s, ",")
            IN IF comma_pos > 0 /\ Len(s) - comma_pos = 3
               THEN ParseFloat(Replace(s, ",", <<".">>))
               ELSE ParseFloat(Replace(s, ",", <<>>))
       ELSE ParseFloat(s)

MaxAmountLen == 5    \* longest generated amount string
AmountChars == {"0", "5", ",", ".", " "}

A_1_234 == <<"1", ",", "2", "3", "4">>
A_1234_56 == <<"1", "2", "3", "4", ",", "5", "6">>
A_1d234c56 == <<"1", ".", "2", "3", "4", ",", "5", "6">>
A_1c234d56 == <<"1", ",", "2", "3", "4", ".", "5", "6">>
A_1234 == <<"1", "2", "3", "4">>

\* the arguments of the amount specification: every string over AmountChars
\* up to MaxAmountLen and the strings the documentation names
AmountStrings ==
    UNION {[1..n -> AmountChars] : n \in 0..MaxAmountLen}
        \cup {A_1_234, A_1234_56, A_1d234c56, A_1c234d56, A_1234}

InitAmount ==
    /\ command = "parse_amount"
    /\ amount_in \in AmountStrings
    /\ amount_out = NotParsed
    /\ reloaded = <<>>
    /\ date_str = <<>>
    /\ normalized = <<>>
    /\ pads_year = TRUE
    /\ pc = "start"
    /\ path_exists = TRUE
    /\ pdf_files = <<>>
    /\ json_data = <<>>
    /\ files = <<>>
    /\ invoices = <<>>
    /\ rules = DefaultRules
    /\ now = BaseYear
    /\ results = <<>>
    /\ validated_at = <<>>
    /\ error_counts = EmptyCounts
    /\ summary = NoSummary
    /\ stdout = <<>>
    /\ exit_code = -1
    /\ http_status = 0
    /\ calls = 0
    /\ prev_summary = NoSummary
    /\ prev_validated_at = <<>>

\* one call of _parse_amount
ParseAmount ==
    /\ command = "parse_amount"
    /\ pc = "start"
    /\ amount_out' = parse_amount(amount_in)
    /\ pc' = "exited"
    /\ UNCHANGED <<command, path_exists, pdf_files, json_data, files,
                   invoices, rules, now, results, validated_at, error_counts,
                   summary, stdout, exit_code, http_status, calls,
                   prev_summary, prev_validated_at, amount_in,
                   reloaded, date_str, normalized, pads_year>>

NextAmount == ParseAmount

SpecAmount == InitAmount /\ [][NextAmount]_vars

(***************************************************************************)
(* extractor.py: _normalize_date                                           *)
(***************************************************************************)
\* the formats tried, in order: the order of the fields and the separator
DateFormats ==
    << [order |-> "dmy", sep |-> "."], [order |-> "dmy", sep |-> "/"],
       [order |-> "dmy", sep |-> "-"], [order |-> "ymd", sep |-> "-"],
       [order |-> "ymd", sep |-> "/"] >>

\* datetime.strptime(date_str, fmt) for the formats above: the string is
\* three tokens joined by the separator, a day token (%d), a month token
\* (%m) and four digits (%Y) in the order of the format, naming a date of
\* the calendar with year >= 1; anything else is a ValueError
StrptimeFmt(cs, fmt) ==
    LET seps == {i \in 1..Len(cs) : cs[i] = fmt.sep}
    IN IF Cardinality(seps) # 2 THEN ValueError
       ELSE LET p == CHOOSE i \in seps : \A j \in seps : i <= j
                q == CHOOSE i \in seps : \A j \in seps : i >= j
                t1 == SubSeq(cs, 1, p - 1)
                t2 == SubSeq(cs, p + 1, q - 1)
                t3 == SubSeq(cs, q + 1, Len(cs))
                dtok == IF fmt.order = "dmy" THEN t1 ELSE t3
                ytok == IF fmt.order = "dmy" THEN t3 ELSE t1
            IN IF ~DayToken(dtok) \/ ~MonthToken(t2)
                  \/ Len(ytok) # 4 \/ ~AllDigits(ytok)
               THEN ValueError
               ELSE LET y == DigitsVal(ytok)
                        m == TokenVal(t2)
                        d == TokenVal(dtok)
                    IN IF y < 1 \/ d > DaysInMonth(y, m) THEN ValueError
                       ELSE [ok |-> TRUE, year |-> y, month |-> m,
                             day |-> d]

\* the decimal digits of a natural number
RECURSIVE Digits(_)
Digits(n) ==
    IF n < 10 THEN <<DigitChars[n + 1]>>
    ELSE Digits(n \div 10) \o <<DigitChars[(n % 10) + 1]>>

\* a number written with at least the given count of digits
RECURSIVE ZeroPad(_, _)
ZeroPad(cs, width) ==
    IF Len(cs) >= width THEN cs ELSE ZeroPad(<<"0">> \o cs, width)

\* dt.strftime("%Y-%m-%d"): month and day have two digits; a year below
\* 1000 has four digits or is written without leading zeros, depending
\* on the platform's C library
Strftime(dt, pads) ==
    (IF pads THEN ZeroPad(Digits(dt.year), 4) ELSE Digits(dt.year))
        \o <<"-">> \o ZeroPad(Digits(dt.month), 2)
        \o <<"-">> \o ZeroPad(Digits(dt.day), 2)

\* InvoiceExtractor._normalize_date
normalize_date(date_str_arg, pads) ==
    LET matching == {i \in 1..Len(DateFormats) :
                        StrptimeFmt(date_str_arg, DateFormats[i]).ok}
    IN IF matching = {} THEN date_str_arg
       ELSE LET first == CHOOSE i \in matching : \A j \in matching : i <= j
            IN Strftime(StrptimeFmt(date_str_arg, DateFormats[first]), pads)

MaxNormalizeCalls == 2    \* calls of _normalize_date, each on the last result

N_05_03_2024 == <<"0","5",".","0","3",".","2","0","2","4">>
N_2024_03_05 == <<"2","0","2","4","-","0","3","-","0","5">>
N_01_01_0005 == <<"0","1",".","0","1",".","0","0","0","5">>

DayTokens == {<<"5">>, <<"0","5">>, <<"3","1">>, <<" ","5">>, <<"3","2">>,
              <<"0">>}
MonthTokens == {<<"3">>, <<"0","3">>, <<"0","2">>, <<"1","3">>, <<"0","1">>}
YearTokens == {<<"2","0","2","4">>, <<"0","0","0","5">>, <<"0","9","9","9">>,
               <<"1","0","0","0">>, <<"2","4">>, <<"0","0","0","0">>}
Separators == {".", "/", "-"}

\* the arguments of the date specification: day, month and year tokens in
\* either order with any two separators, with or without a trailing blank,
\* and strings that are no dates
DateStrings ==
    { a \o <<s1>> \o m \o <<s2>> \o b \o tail :
        a \in DayTokens, m \in MonthTokens, b \in YearTokens,
        s1 \in Separators, s2 \in Separators, tail \in {<<>>, <<" ">>} }
    \cup
    { b \o <<s1>> \o m \o <<s2>> \o a \o tail :
        a \in DayTokens, m \in MonthTokens, b \in YearTokens,
        s1 \in Separators, s2 \in Separators, tail \in {<<>>, <<" ">>} }
    \cup {D_MARCH, N_01_01_0005, <<>>}

InitNormalize ==
    /\ command = "normalize_date"
    /\ date_str \in DateStrings
    /\ normalized = <<>>
    /\ pads_year \in BOOLEAN
    /\ pc = "start"
    /\ path_exists = TRUE
    /\ pdf_files = <<>>
    /\ json_data = <<>>
    /\ files = <<>>
    /\ invoices = <<>>
    /\ rules = DefaultRules
    /\ now = BaseYear
    /\ results = <<>>
    /\ validated_at = <<>>
    /\ error_counts = EmptyCounts
    /\ summary = NoSummary
    /\ stdout = <<>>
    /\ exit_code = -1
    /\ http_status = 0
    /\ calls = 0
    /\ prev_summary = NoSummary
    /\ prev_validated_at = <<>>
    /\ amount_in = <<>>
    /\ amount_out = NotParsed
    /\ reloaded = <<>>

\* one call of _normalize_date: on the argument, then on the last result
NormalizeDate ==
    /\ command = "normalize_date"
    /\ Len(normalized) < MaxNormalizeCalls
    /\ LET arg == IF normalized = <<>> THEN date_str
                  ELSE normalized[Len(normalized)]
       IN normalized' = Append(normalized, normalize_date(arg, pads_year))
    /\ pc' = "exited"
    /\ UNCHANGED <<command, path_exists, pdf_files, json_data, files,
                   invoices, rules, now, results, validated_at, error_counts,
                   summary, stdout, exit_code, http_status, calls,
                   prev_summary, prev_validated_at, amount_in, amount_out,
                   reloaded, date_str, pads_year>>

NextNormalize == NormalizeDate

SpecNormalize == InitNormalize /\ [][NextNormalize]_vars

(***************************************************************************)
(* Properties                                                              *)
(***************************************************************************)
Sel(outcome) == IF outcome.k = "error" THEN <<outcome.msg>> ELSE <<>>

\* C2: every result carries the invoice's number as invoice_id when the
\* invoice has a (non-empty) number and "UNKNOWN" when it has none, and is
\* valid exactly when its list of errors is empty.
C2_IdAndValidity ==
    \A i \in 1..Len(results) :
        /\ results[i].invoice_id =
              IF invoices[i].invoice_number \in {None, Str(<<>>)}
              THEN UNKNOWN ELSE invoices[i].invoice_number
        /\ results[i].is_valid <=> (results[i].errors = <<>>)

C2_Witness ==
    /\ Len(results) = 1
    /\ invoices[1].invoice_number = None
    /\ results[1].invoice_id = UNKNOWN
    /\ ~results[1].is_valid
    /\ results[1].errors # <<>>

\* the outputs of the rules in the order of the catalog: completeness
\* (number, date, seller, buyer), date format (invoice date, due date),
\* currency, sign (net, tax, gross), totals, due date, line items, parties
CatalogErrors(invoice, year) ==
    Sel(CompletenessRule("invoice_number", invoice))
    \o Sel(CompletenessRule("invoice_date", invoice))
    \o Sel(CompletenessRule("seller_name", invoice))
    \o Sel(CompletenessRule("buyer_name", invoice))
    \o Sel(DateFormatRule("invoice_date", invoice, year))
    \o Sel(DateFormatRule("due_date", invoice, year))
    \o Sel(CurrencyRule(invoice))
    \o Sel(AmountSignRule("net_total", invoice))
    \o Sel(AmountSignRule("tax_amount", invoice))
    \o Sel(AmountSignRule("gross_total", invoice))
    \o Sel(TotalConsistencyRule(invoice))
    \o Sel(DueDateRule(invoice))
    \o Sel(LineItemsConsistencyRule(invoice))
    \o Sel(PartyNamesRule(invoice))

\* C3: the errors of a result are exactly the non-empty outputs of the
\* rules, listed in catalog order.
C3_CatalogOrder ==
    \A i \in 1..Len(results) :
        results[i].errors = CatalogErrors(invoices[i], validated_at[i])

C3_Witness ==
    /\ Len(results) = 1
    /\ Len(results[1].errors) >= 7
    /\ results[1].errors[1] = "missing_field: invoice_number"
    /\ results[1].errors[2] = "invalid_date_format: invoice_date"
    /\ results[1].errors[3] = "invalid_date_format: due_date"
    /\ results[1].errors[4] = "invalid_currency: XYZ"
    /\ results[1].errors[5] = "negative_amount: net_total"
    /\ results[1].errors[Len(results[1].errors)]
          = "business_rule_failed: seller_and_buyer_same"

\* C1: the results are in input order, one per invoice: results[i] is the
\* result of validate_invoice on invoices[i] alone, during the loop and in
\* the summary returned.
C1_BatchOrder ==
    /\ Len(results) <= Len(invoices)
    /\ \A i \in 1..Len(results) :
          results[i] = validate_invoice(DefaultRules, invoices[i],
                                        validated_at[i])
    /\ summary.k = "summary" =>
          /\ Len(summary.results) = Len(invoices)
          /\ \A i \in 1..Len(invoices) :
                /\ summary.results[i]
                      = validate_invoice(DefaultRules, invoices[i],
                                         validated_at[i])
                /\ summary.results[i].invoice_id
                      = IF Truthy(invoices[i].invoice_number)
                        THEN invoices[i].invoice_number ELSE UNKNOWN

C1_Witness ==
    /\ summary.k = "summary"
    /\ Len(invoices) = 2
    /\ summary.results[1].invoice_id = Str(S_INV2)
    /\ summary.results[2].invoice_id = Str(S_INV1)
    /\ ~summary.results[1].is_valid
    /\ summary.results[2].is_valid

\* the number of occurrences of the error code c in the errors of res
Occurrences(c, res) ==
    Cardinality({p \in (1..Len(res)) \X (1..Len(DefaultRules)) :
                   /\ p[2] <= Len(res[p[1]].errors)
                   /\ res[p[1]].errors[p[2]] = c})

AllErrors(res) ==
    UNION {{res[i].errors[j] : j \in 1..Len(res[i].errors)} :
             i \in 1..Len(res)}

\* C4: the counts of a summary: total_invoices is the number of invoices,
\* valid_invoices the number of valid results, valid + invalid = total, and
\* error_counts maps exactly the error strings that occur to their number
\* of occurrences over all results.
C4_SummaryCounts ==
    summary.k = "summary" =>
        /\ summary.total_invoices = Len(invoices)
        /\ summary.valid_invoices
              = Cardinality({i \in 1..Len(summary.results) :
                               summary.results[i].is_valid})
        /\ summary.valid_invoices + summary.invalid_invoices
              = summary.total_invoices
        /\ DOMAIN summary.error_counts = AllErrors(summary.results)
        /\ \A c \in AllErrors(summary.results) :
              summary.error_counts[c] = Occurrences(c, summary.results)

C4_Witness ==
    /\ summary.k = "summary"
    /\ summary.total_invoices = 2
    /\ summary.invalid_invoices = 2
    /\ "business_rule_failed: totals_mismatch (expected 120.0, got 120.02)"
          \in DOMAIN summary.error_counts
    /\ "business_rule_failed: totals_mismatch (expected 120.0, got 125.0)"
          \in DOMAIN summary.error_counts
    /\ "business_rule_failed: seller_and_buyer_same"
          \notin DOMAIN summary.error_counts
          \/ summary.error_counts[
                "business_rule_failed: seller_and_buyer_same"] = 1

\* the documents extract_from_folder has dealt with
Processed ==
    IF pc = "start" THEN {}
    ELSE {pdf_files[i] : i \in 1..Len(pdf_files)}
            \ {files[i] : i \in 1..Len(files)}
Extracted == {d \in Processed : d.outcome.k = "invoice"}

\* C5: extract_from_folder takes the documents in name order and a failing
\* document never aborts it: the invoices are those of the documents
\* processed so far that extracted, by rank of name, the loop can always go
\* on, and once it has returned every document was processed.
C5_ExtractIsolation ==
    command \in {"extract", "full_run"} =>
        /\ Len(invoices) = Cardinality(Extracted)
        /\ \A d \in Extracted :
              invoices[1 + Cardinality({e \in Extracted : e.name < d.name})]
                 = d.outcome.invoice
        /\ \A d \in Processed : \A i \in 1..Len(files) :
              d.name < files[i].name
        /\ pc = "extracting" => ENABLED (ExtractStep \/ ExtractReturn)
        /\ (path_exists /\ pc \in {"validating", "exited"}) => files = <<>>

C5_Witness ==
    /\ command = "extract"
    /\ pc = "exited"
    /\ Len(pdf_files) = 3
    /\ pdf_files[1].name = 3 /\ pdf_files[1].outcome.k = "invoice"
    /\ pdf_files[2].name = 2 /\ pdf_files[2].outcome.k = "raise"
    /\ pdf_files[3].name = 1 /\ pdf_files[3].outcome.k = "invoice"
    /\ pdf_files[1].outcome # pdf_files[3].outcome
    /\ invoices = <<pdf_files[3].outcome.invoice,
                    pdf_files[1].outcome.invoice>>

\* C6: exit status of the CLI: a validate or full-run that obtains a
\* summary exits 0 if no invoice is invalid and 1 otherwise; an extract on
\* an existing directory exits 0; every command whose directory or file
\* does not exist exits 1 having extracted and validated nothing.
C6_ExitCodes ==
    (command \in CliCommands /\ pc = "exited") =>
        /\ (command \in {"validate", "full_run"} /\ summary.k = "summary")
              => exit_code = IF \A i \in 1..Len(results) :
                                  results[i].is_valid
                             THEN 0 ELSE 1
        /\ (command = "extract" /\ path_exists) => exit_code = 0
        /\ ~path_exists =>
              /\ exit_code = 1
              /\ Len(stdout) = 1
              /\ invoices = <<>> /\ results = <<>> /\ files = <<>>
              /\ summary = NoSummary /\ calls = 0

C6_Witness ==
    /\ command = "full_run"
    /\ pc = "exited"
    /\ summary.k = "summary"
    /\ summary.invalid_invoices = 1
    /\ summary.valid_invoices = 1
    /\ exit_code = 1

\* an input error: the file or directory of a CLI command does not exist,
\* or the list handed to validation is empty
MissingInput == command \in CliCommands /\ ~path_exists
EmptyBatch ==
    \/ command = "validate" /\ path_exists /\ json_data = <<>>
    \/ command = "validate_json" /\ json_data = <<>>
HardFailure ==
    /\ summary.k # "summary"
    /\ IF command = "validate_json" THEN http_status >= 400
       ELSE exit_code = 1

\* C7 as stated: every input error, an empty batch included, ends the CLI
\* command or the HTTP request as a hard failure, which no run with
\* invalid invoices is (such a run produces a summary).
C7_InputErrorsAreHardFailures ==
    pc = "exited" =>
        /\ (MissingInput \/ EmptyBatch) => HardFailure
        /\ (summary.k = "summary" /\ summary.invalid_invoices > 0)
              => ~HardFailure

\* C7 amended: a missing file or directory fails a CLI command at once
\* (status 1, only the error message printed, nothing extracted or
\* validated) and an empty list fails the HTTP endpoint at once (400); a
\* run with invalid invoices always produces a summary (CLI: status 1 after
\* the summary, HTTP: 200), so the two are told apart by the summary, not
\* by the CLI status; an empty batch is no error for the CLI validate
\* command, which reports total_invoices = 0 and exits 0.
C7_InputErrors ==
    pc = "exited" =>
        /\ MissingInput =>
              /\ HardFailure
              /\ Len(stdout) = 1 /\ calls = 0
              /\ invoices = <<>> /\ results = <<>>
        /\ (command = "validate_json" /\ json_data = <<>>) =>
              /\ HardFailure
              /\ http_status = 400 /\ calls = 0
        /\ (summary.k = "summary" /\ summary.invalid_invoices > 0) =>
              /\ ~HardFailure
              /\ command \in CliCommands =>
                    /\ exit_code = 1
                    /\ stdout[Len(stdout)] = "VALIDATION SUMMARY"
              /\ command = "validate_json" => http_status = 200
        /\ (command = "validate" /\ path_exists /\ json_data = <<>>) =>
              /\ summary.k = "summary"
              /\ summary.total_invoices = 0
              /\ exit_code = 0

C7_Witness ==
    /\ pc = "exited"
    /\ command = "validate_json"
    /\ json_data = <<>>
    /\ http_status = 400

\* C8 as stated: for every list of records the loader accepts,
\* validate_invoices returns a summary with one result per record; no rule
\* raises.
C8_NoRuleAbortsBatch ==
    (/\ command = "validate"
     /\ pc = "exited"
     /\ path_exists
     /\ \A i \in 1..Len(json_data) : InvoiceDictOk(json_data[i]))
        => /\ summary.k = "summary"
           /\ Len(summary.results) = Len(json_data)

\* C9 as stated: validation changes neither the invoices nor the rule list,
\* and a further call on the same list returns the same summary.
C9_ReadOnlyAndRepeatable ==
    [][/\ (command = "validate_invoices" \/ pc = "validating")
            => (invoices' = invoices /\ rules' = rules)
       /\ (summary'.k = "summary" /\ prev_summary'.k = "summary")
            => summary' = prev_summary']_vars

\* C9 amended: validation changes neither the invoices nor the rule list,
\* and a further call on the same list returns the same summary provided
\* the clock showed the same year for every invoice as in the previous call
\* (the date-range check reads datetime.now()).
C9_ReadOnly ==
    [][/\ (command = "validate_invoices" \/ pc = "validating")
            => (invoices' = invoices /\ rules' = rules)
       /\ (/\ summary'.k = "summary" /\ prev_summary'.k = "summary"
           /\ validated_at' = prev_validated_at')
            => summary' = prev_summary']_vars

C9_Witness ==
    /\ command = "validate_invoices"
    /\ calls = 2
    /\ summary.k = "summary"
    /\ prev_summary = summary
    /\ Len(invoices) = 2
    /\ summary.invalid_invoices = 1

\* the stripped argument has a "," and no "."
CommaOnly(s) == Contains(s, ",") /\ ~Contains(s, ".")
\* number of characters after the last ","
AfterLastComma(s) == Len(s) - 1 - RFind(s, ",")
OnlyDigitsAndCommas(s) == \A i \in 1..Len(s) : IsDigit(s[i]) \/ s[i] = ","
DigitsOf(s) == SelectSeq(s, IsDigit)
CommaCount(s) == Cardinality({i \in 1..Len(s) : s[i] = ","})

\* C10 as stated: in a string with "," and no ".", a last "," followed by
\* three characters is the decimal separator, so that "1,234" is 1.234;
\* otherwise all commas are stripped.
C10_CommaThreeFromEnd ==
    (command = "parse_amount" /\ pc = "exited") =>
        LET s == Strip(amount_in)
        IN /\ amount_in = A_1_234 => amount_out = Float(1234, 3)
           /\ (CommaOnly(s) /\ OnlyDigitsAndCommas(s)) =>
                 IF AfterLastComma(s) = 3 /\ CommaCount(s) = 1
                 THEN amount_out = Float(DigitsVal(DigitsOf(s)), 3)
                 ELSE AfterLastComma(s) # 3 /\ DigitsOf(s) # <<>>
                         => amount_out = Float(DigitsVal(DigitsOf(s)), 0)

\* C10 amended: in a string of digits and "," (no "."), if the last "," is
\* not the first character and exactly two characters follow it, every ","
\* becomes ".": with a single comma the digits are read with two decimals
\* ("1234,56" is 1234.56), with several commas float() fails; otherwise all
\* commas are stripped and the digits are read as an integer ("1,234" is
\* 1234.0, not 1.234), float() failing if no digit is left.
C10_CommaOnly ==
    (command = "parse_amount" /\ pc = "exited") =>
        LET s == Strip(amount_in)
        IN (CommaOnly(s) /\ OnlyDigitsAndCommas(s)) =>
             IF Len(s) > 3 /\ AfterLastComma(s) = 2
             THEN IF CommaCount(s) = 1
                  THEN amount_out = Float(DigitsVal(DigitsOf(s)), 2)
                  ELSE amount_out = Raise("ValueError")
             ELSE IF DigitsOf(s) = <<>>
             THEN amount_out = Raise("ValueError")
             ELSE amount_out = Float(DigitsVal(DigitsOf(s)), 0)

C10_Witness ==
    /\ command = "parse_amount"
    /\ pc = "exited"
    /\ amount_in = A_1_234
    /\ amount_out = Float(1234, 0)

\* the stripped argument is made of digits, "," and "." only
OnlyDigitsAndSeparators(s) ==
    \A i \in 1..Len(s) : IsDigit(s[i]) \/ s[i] = "," \/ s[i] = "."
\* the separator that occurs last in a string holding both
LastSeparator(s) == IF RFind(s, ",") > RFind(s, ".") THEN "," ELSE "."
SeparatorCount(s, c) == Cardinality({i \in 1..Len(s) : s[i] = c})

\* C11: in a string with both "," and ".", the separator that occurs last
\* is the decimal separator, the other one is removed everywhere and the
\* number is read with the digits after the last separator as decimals,
\* so that "1.234,56" and "1,234.56" are both 1234.56 (float() failing when
\* the decimal separator occurs more than once); this is decided before
\* the comma-only case, whatever the number of characters after the last
\* comma; a string of digits with neither separator is its plain value
\* ("1234" is 1234.0).
C11_BothSeparators ==
    (command = "parse_amount" /\ pc = "exited") =>
        LET s == Strip(amount_in)
        IN /\ amount_in \in {A_1d234c56, A_1c234d56}
                => amount_out = Float(123456, 2)
           /\ amount_in = A_1234 => amount_out = Float(1234, 0)
           /\ (Contains(s, ",") /\ Contains(s, ".")
                  /\ OnlyDigitsAndSeparators(s)) =>
                 IF SeparatorCount(s, LastSeparator(s)) = 1
                     /\ DigitsOf(s) # <<>>
                 THEN amount_out =
                        Float(DigitsVal(DigitsOf(s)),
                              Len(s) - 1 - RFind(s, LastSeparator(s)))
                 ELSE amount_out = Raise("ValueError")
           /\ (~Contains(s, ",") /\ ~Contains(s, ".") /\ s # <<>>
                  /\ OnlyDigitsAndSeparators(s)) =>
                 amount_out = Float(DigitsVal(s), 0)

C11_Witness ==
    /\ command = "parse_amount"
    /\ pc = "exited"
    /\ amount_in = A_1d234c56
    /\ amount_out = Float(123456, 2)

\* an error code starts with the given text
HasPrefix(str, prefix) ==
    Len(str) >= Len(prefix) /\ SubSeq(str, 1, Len(prefix)) = prefix
\* some error of the list starts with the given text
Reports(errors, prefix) ==
    \E j \in 1..Len(errors) : HasPrefix(errors[j], prefix)
\* number of errors of the list that start with the given text
ReportCount(errors, prefix) ==
    Cardinality({j \in 1..Len(errors) : HasPrefix(errors[j], prefix)})

\* C12: totals_mismatch is reported exactly when net_total, tax_amount and
\* gross_total are all set and net + tax differs from gross by more than
\* 0.01 (amounts in hundredths: by more than one hundredth), so that with
\* net 100.00 and tax 20.00 the gross totals 120.00 and 120.01 pass and
\* 120.02 fails; with an amount absent nothing is reported.
C12_TotalConsistency ==
    \A i \in 1..Len(results) :
        LET inv == invoices[i]
            allSet == /\ IsNum(inv.net_total) /\ IsNum(inv.tax_amount)
                      /\ IsNum(inv.gross_total)
        IN Reports(results[i].errors,
                   "business_rule_failed: totals_mismatch")
             <=> /\ allSet
                 /\ Abs(inv.net_total.v + inv.tax_amount.v
                          - inv.gross_total.v) > 1

\* the date a field holds, when it is set and parses as YYYY-MM-DD
Parses(value) == IsStr(value) /\ value.v # <<>> /\ Strptime(value.v).ok
\* (year, month, day) of a parseable field as one number
DayNumber(value) ==
    LET dt == Strptime(value.v)
    IN dt.year * 10000 + dt.month * 100 + dt.day

\* C13: due_date_before_invoice_date is reported if and only if
\* invoice_date and due_date are both set, both parse as YYYY-MM-DD and the
\* due date is strictly earlier than the invoice date; equal dates pass;
\* when either date does not parse this rule reports nothing, and the
\* unparseable date is reported once, by the DateFormat rule of its field.
C13_DueDateValid ==
    \A i \in 1..Len(results) :
        LET inv == invoices[i]
            errs == results[i].errors
        IN /\ Reports(errs, "business_rule_failed: due_date_before_invoice_date")
                <=> /\ Parses(inv.invoice_date) /\ Parses(inv.due_date)
                    /\ DayNumber(inv.due_date) < DayNumber(inv.invoice_date)
           /\ \A f \in {"invoice_date", "due_date"} :
                 (IsStr(inv[f]) /\ inv[f].v # <<>> /\ ~Parses(inv[f])) =>
                    /\ ReportCount(errs, "invalid_date_format: " \o f) = 1
                    /\ ReportCount(errs, "business_rule_failed: due_date") = 0

C13_Witness ==
    /\ Len(results) = 1
    /\ invoices[1].invoice_date = Str(D_2024_01_05)
    /\ invoices[1].due_date = Str(D_2024_1_5)
    /\ ~Reports(results[1].errors, "business_rule_failed: due_date")

\* a name is set: a non-empty string
NameSet(value) == IsStr(value) /\ value.v # <<>>
\* both names are set and equal after trimming, letter case ignored
SameParty(inv) ==
    /\ NameSet(inv.seller_name) /\ NameSet(inv.buyer_name)
    /\ Lower(Strip(inv.seller_name.v)) = Lower(Strip(inv.buyer_name.v))
HasError(errors, msg) == \E j \in 1..Len(errors) : errors[j] = msg

\* C14: an invoice whose seller and buyer names are both set and equal
\* case-insensitively after trimming, and whose due date parses and is
\* strictly before its parseable invoice date, is invalid and has both
\* due_date_before_invoice_date and seller_and_buyer_same among its errors
\* (as INV-1 with dates 2024-01-10 / 2024-01-05 and both names "Acme");
\* seller_and_buyer_same is never reported when a name is unset or the
\* trimmed, case-folded names differ.
C14_PartyNamesAndDueDate ==
    \A i \in 1..Len(results) :
        LET inv == invoices[i]
            errs == results[i].errors
        IN /\ (/\ SameParty(inv)
               /\ Parses(inv.invoice_date) /\ Parses(inv.due_date)
               /\ DayNumber(inv.due_date) < DayNumber(inv.invoice_date)) =>
                 /\ ~results[i].is_valid
                 /\ HasError(errs, "business_rule_failed: "
                                   \o "due_date_before_invoice_date")
                 /\ HasError(errs,
                             "business_rule_failed: seller_and_buyer_same")
           /\ ~SameParty(inv) =>
                 ~Reports(errs, "business_rule_failed: seller_and_buyer_same")

C14_Witness ==
    /\ Len(results) = 1
    /\ invoices[1].invoice_number = Str(S_INV1)
    /\ invoices[1].invoice_date = Str(D_2024_01_10)
    /\ invoices[1].due_date = Str(D_2024_01_05)
    /\ invoices[1].seller_name = Str(S_ACME)
    /\ invoices[1].buyer_name = Str(S_ACME)
    /\ ~results[1].is_valid
    /\ results[1].errors =
          << "business_rule_failed: due_date_before_invoice_date",
             "business_rule_failed: seller_and_buyer_same" >>

FormattedDate(dt) ==
    ZeroPad(Digits(dt.year), 4) \o <<"-">> \o ZeroPad(Digits(dt.month), 2)
        \o <<"-">> \o ZeroPad(Digits(dt.day), 2)
\* the formats that parse the string, by their rank in the order
\* d.m.Y, d/m/Y, d-m-Y, Y-m-d, Y/m/d
ParsingFormats(cs) ==
    {i \in 1..Len(DateFormats) : StrptimeFmt(cs, DateFormats[i]).ok}
FirstParse(cs) ==
    StrptimeFmt(cs, DateFormats[CHOOSE i \in ParsingFormats(cs) :
                                   \A j \in ParsingFormats(cs) : i <= j])

\* C16: _normalize_date returns, for every string, the first successful
\* parse in the order d.m.Y, d/m/Y, d-m-Y, Y-m-d, Y/m/d written as
\* YYYY-MM-DD, or the string itself when no format matches; applying it to
\* its own result changes nothing; "05.03.2024" gives "2024-03-05",
\* "2024-03-05" gives itself and "March" is returned unchanged.
C16_DateNormalizer ==
    (command = "normalize_date" /\ Len(normalized) >= 1) =>
        /\ normalized[1] = IF ParsingFormats(date_str) = {} THEN date_str
                           ELSE FormattedDate(FirstParse(date_str))
        /\ \A n \in 2..Len(normalized) : normalized[n] = normalized[1]
        /\ date_str = N_05_03_2024 => normalized[1] = N_2024_03_05
        /\ date_str = N_2024_03_05 => normalized[1] = N_2024_03_05
        /\ date_str = D_MARCH => normalized[1] = D_MARCH

\* the invoice with both tax ids unset
WithoutTaxIds(inv) ==
    [inv EXCEPT !.seller_tax_id = None, !.buyer_tax_id = None]

\* C17: the TaxIDFormat rule is not among the rules of the default
\* validator: no result has an invalid_tax_id_format error, and the
\* errors and validity of an invoice are those of the same invoice with
\* both tax ids unset, whatever seller_tax_id and buyer_tax_id hold.
C17_TaxIdNotActive ==
    /\ \A r \in 1..Len(rules) : rules[r].kind # "TaxIDFormat"
    /\ \A i \in 1..Len(results) :
          /\ ~Reports(results[i].errors, "invalid_tax_id_format")
          /\ results[i].errors
                = CatalogErrors(WithoutTaxIds(invoices[i]), validated_at[i])
          /\ results[i].is_valid
                <=> CatalogErrors(WithoutTaxIds(invoices[i]),
                                  validated_at[i]) = <<>>

C17_Witness ==
    /\ Len(results) = 1
    /\ invoices[1].seller_tax_id = Str(T_BAD)
    /\ invoices[1].buyer_tax_id = Str(T_BAD)
    /\ results[1].is_valid
    /\ results[1].errors = <<>>

\* the documents of the folder whose extraction does not fail
Extractable ==
    {i \in 1..Len(pdf_files) : pdf_files[i].outcome.k = "invoice"}

\* C18: in a full-run nothing is validated before extraction has returned,
\* and only the extracted invoices are validated: the summary counts as
\* many invoices as there are documents whose extraction did not fail, a
\* document that failed has no result and the exit status is 1 only if
\* the invoice of a document that extracted is invalid; over an existing
\* directory whose documents all fail, or that has none, the summary
\* counts 0 invoices and the exit status is 0.
C18_FullRunOnlyExtracted ==
    (command = "full_run" /\ path_exists) =>
        /\ pc \in {"start", "extracting"} =>
              /\ results = <<>> /\ summary = NoSummary
              /\ calls = 0 /\ exit_code = -1
        /\ pc = "validating" =>
              /\ files = <<>>
              /\ Len(invoices) = Cardinality(Extractable)
              /\ Len(results) <= Len(invoices)
        /\ pc = "exited" =>
              /\ summary.k = "summary"
              /\ summary.total_invoices = Cardinality(Extractable)
              /\ Len(summary.results) = Cardinality(Extractable)
              /\ exit_code \in {0, 1}
              /\ exit_code = 1 =>
                    \E i \in Extractable : \E j \in 1..Len(results) :
                        /\ ~results[j].is_valid
                        /\ results[j].errors
                              = CatalogErrors(pdf_files[i].outcome.invoice,
                                              validated_at[j])
              /\ Extractable = {} =>
                    /\ summary.total_invoices = 0
                    /\ summary.results = <<>>
                    /\ exit_code = 0

C18_Witness ==
    /\ command = "full_run"
    /\ pc = "exited"
    /\ Len(pdf_files) = 2
    /\ Extractable = {}
    /\ summary.k = "summary"
    /\ summary.total_invoices = 0
    /\ exit_code = 0
    /\ Len(stdout) > 2

====
